---- MODULE Spec2Model ----
(***************************************************************************)
(* Model of github.com/wealdtech/go-string2eth (conversion.go).            *)
(*                                                                         *)
(* Strings are sequences of one-character strings.  A *big.Int is either   *)
(* NilInt or a record [neg, abs] as in math/big: abs is the magnitude, here a *)
(* sequence of decimal digits, most significant first, without leading     *)
(* zeros (the zero magnitude is the empty sequence); neg is FALSE for 0.   *)
(***************************************************************************)
EXTENDS Integers, Sequences, FiniteSets, TLC

VARIABLES
    pc,        \* which call was made last
    text,      \* the string given to StringToWei
    resWei,    \* the *big.Int StringToWei returned (NilInt for nil)
    resErr,    \* the error StringToWei returned (Nil for nil, Panic for a panic)
    mode,      \* the standard argument given to WeiToString
    shown,     \* the string WeiToString returned for resWei
    resWei2,   \* the *big.Int StringToWei returned for shown
    resErr2,   \* the error StringToWei returned for shown
    uname,     \* the name given to UnitToMultiplier
    umult,     \* the *big.Int UnitToMultiplier returned
    uerr,      \* the error UnitToMultiplier returned
    other,     \* a second string given to StringToWei
    gwei,      \* the uint64 StringToGWei returned, as a magnitude
    gerr       \* the error StringToGWei returned

vars ==
    <<pc, text, resWei, resErr, mode, shown, resWei2, resErr2, uname, umult, uerr,
      other, gwei, gerr>>

\* the nil error
Nil == "nil"

\* the nil *big.Int
NilInt == [nil |-> TRUE]

(***************************************************************************)
(* Sequence helpers.                                                       *)
(***************************************************************************)
Front(s) == IF s = <<>> THEN <<>> ELSE SubSeq(s, 1, Len(s) - 1)

Last(s) == s[Len(s)]

\* the element of a set of one element; with { e(v) : v \in {x} } it gives
\* e(x) with x worked out once
The(S) == CHOOSE x \in S : TRUE

Max(m, n) == IF m >= n THEN m ELSE n

\* strings.Repeat(s, n)
Repeat(s, n) ==
    IF n <= 0 \/ s = <<>> THEN <<>>
    ELSE [i \in 1..(n * Len(s)) |-> s[((i - 1) % Len(s)) + 1]]

(***************************************************************************)
(* math/big magnitudes (nat): decimal digits, most significant first.      *)
(***************************************************************************)
\* a without its leading zeros
natNorm(a) ==
    IF \A i \in 1..Len(a) : a[i] = 0 THEN <<>>
    ELSE LET first == CHOOSE i \in 1..Len(a) :
                          a[i] # 0 /\ \A k \in 1..(i - 1) : a[k] = 0
         IN  SubSeq(a, first, Len(a))

\* the digit of a that counts 10^(i-1)
natDigit(a, i) == IF i <= Len(a) THEN a[Len(a) + 1 - i] ELSE 0

natCmp(a, b) ==
    IF Len(a) # Len(b) THEN (IF Len(a) < Len(b) THEN -1 ELSE 1)
    ELSE IF a = b THEN 0
    ELSE LET i == CHOOSE j \in 1..Len(a) :
                      a[j] # b[j] /\ \A k \in 1..(j - 1) : a[k] = b[k]
         IN  IF a[i] < b[i] THEN -1 ELSE 1

\* the carry of a + b into the digit that counts 10^i: some lower digit pair
\* overflows and every pair between it and i passes the carry on
natCarry(a, b, i) ==
    IF \E j \in 1..i :
           /\ natDigit(a, j) + natDigit(b, j) >= 10
           /\ \A k \in (j + 1)..i : natDigit(a, k) + natDigit(b, k) = 9
    THEN 1 ELSE 0

natAdd(a, b) ==
    natNorm([k \in 1..(Max(Len(a), Len(b)) + 1) |->
                (natDigit(a, Max(Len(a), Len(b)) + 2 - k)
                     + natDigit(b, Max(Len(a), Len(b)) + 2 - k)
                     + natCarry(a, b, Max(Len(a), Len(b)) + 1 - k)) % 10])

\* the borrow of a - b from the digit that counts 10^i
natBorrow(a, b, i) ==
    IF \E j \in 1..i :
           /\ natDigit(a, j) < natDigit(b, j)
           /\ \A k \in (j + 1)..i : natDigit(a, k) = natDigit(b, k)
    THEN 1 ELSE 0

\* a - b for a >= b
natSub(a, b) ==
    natNorm([k \in 1..Len(a) |->
                (natDigit(a, Len(a) + 1 - k) - natDigit(b, Len(a) + 1 - k)
                     - natBorrow(a, b, Len(a) - k) + 10) % 10])

\* a * d for one digit d: the units of the digit products plus their tens
natMulDigit(a, d) ==
    natAdd(natNorm([k \in 1..Len(a) |-> (a[k] * d) % 10]),
           natNorm([k \in 1..(Len(a) + 1) |->
                       IF k <= Len(a) THEN (a[k] * d) \div 10 ELSE 0]))

\* a * 10^n
natShift(a, n) == IF a = <<>> THEN <<>> ELSE a \o [i \in 1..n |-> 0]

RECURSIVE natMulRange(_, _, _, _)
\* a times the number the digits lo..hi of b write
natMulRange(a, b, lo, hi) ==
    IF lo > hi THEN <<>>
    ELSE IF lo = hi THEN natMulDigit(a, b[lo])
    ELSE natAdd(natShift(natMulRange(a, b, lo, (lo + hi) \div 2),
                         hi - ((lo + hi) \div 2)),
                natMulRange(a, b, ((lo + hi) \div 2) + 1, hi))

natMul(a, b) == natMulRange(a, b, 1, Len(b))

\* b is 10^(Len(b) - 1)
natIsPow10(b) == b # <<>> /\ b[1] = 1 /\ \A i \in 2..Len(b) : b[i] = 0

\* [q, r] with a = q*b + r and 0 <= r < b, for b a power of ten, as every
\* divisor of this package is (10, thousand, billion)
natDivMod(a, b) ==
    IF natIsPow10(b)
    THEN [q |-> SubSeq(a, 1, Len(a) - (Len(b) - 1)),
          r |-> natNorm(SubSeq(a, Max(1, Len(a) - (Len(b) - 2)), Len(a)))]
    ELSE [q |-> <<"undefined">>, r |-> <<"undefined">>]

\* x mod m for x < 10 * m
natModStep(x, m) ==
    LET k == CHOOSE d \in 0..9 :
                 /\ natCmp(natMulDigit(m, d), x) <= 0
                 /\ natCmp(natMulDigit(m, d + 1), x) > 0
    IN  natSub(x, natMulDigit(m, k))

RECURSIVE natModPrefix(_, _, _)
\* the number the first n digits of a write, mod m (the remainder of the
\* shorter prefix is bound as a value, so that it is worked out once)
natModPrefix(a, n, m) ==
    IF n < Len(m) THEN SubSeq(a, 1, n)
    ELSE The({ natModStep(natAdd(natShift(p, 1), natNorm(<<a[n]>>)), m) :
                   p \in {natModPrefix(a, n - 1, m)} })

\* 2^63
TwoTo63 == <<9, 2, 2, 3, 3, 7, 2, 0, 3, 6, 8, 5, 4, 7, 7, 5, 8, 0, 8>>

\* 2^64
TwoTo64 == <<1, 8, 4, 4, 6, 7, 4, 4, 0, 7, 3, 7, 0, 9, 5, 5, 1, 6, 1, 6>>

(***************************************************************************)
(* math/big.Int                                                            *)
(***************************************************************************)
MkInt(neg, abs) == [neg |-> neg /\ abs # <<>>, abs |-> abs]

\* new(big.Int), var x big.Int
NewInt == MkInt(FALSE, <<>>)

intOne == MkInt(FALSE, <<1>>)

\* x.Sign()
Sign(x) == IF x.abs = <<>> THEN 0 ELSE IF x.neg THEN -1 ELSE 1

\* x.Cmp(y)
Cmp(x, y) ==
    IF x.neg # y.neg THEN (IF x.neg THEN -1 ELSE 1)
    ELSE IF x.neg THEN natCmp(y.abs, x.abs) ELSE natCmp(x.abs, y.abs)

\* z.Add(x, y)
Add(x, y) ==
    IF x.neg = y.neg THEN MkInt(x.neg, natAdd(x.abs, y.abs))
    ELSE IF natCmp(x.abs, y.abs) >= 0 THEN MkInt(x.neg, natSub(x.abs, y.abs))
    ELSE MkInt(y.neg, natSub(y.abs, x.abs))

\* z.Sub(x, y)
Sub(x, y) == Add(x, MkInt(~y.neg, y.abs))

\* z.Mul(x, y)
Mul(x, y) == MkInt(x.neg # y.neg, natMul(x.abs, y.abs))

\* z.QuoRem(x, y, r): truncated division, y # 0
QuoRem(x, y) ==
    LET d == natDivMod(x.abs, y.abs)
    IN  [q |-> MkInt(x.neg # y.neg, d.q), r |-> MkInt(x.neg, d.r)]

\* z.Div(x, y): Euclidean division, y # 0
Div(x, y) ==
    LET d == QuoRem(x, y)
    IN  IF d.r.neg THEN (IF y.neg THEN Add(d.q, intOne) ELSE Sub(d.q, intOne))
        ELSE d.q

\* x.Uint64(), as a magnitude: the low 64 bits of the magnitude of x
Uint64(x) == natModPrefix(x.abs, Len(x.abs), TwoTo64)

\* x.Int64(): the low 64 bits of the magnitude as an int64, negated for x < 0
Int64(x) ==
    LET low == Uint64(x)
    IN  IF natCmp(low, TwoTo63) < 0 THEN MkInt(x.neg, low)
        ELSE IF low = TwoTo63 THEN MkInt(TRUE, low)
        ELSE MkInt(~x.neg, natSub(TwoTo64, low))

\* z.Mod(x, y): Euclidean modulus, y # 0
Mod(x, y) ==
    LET d == QuoRem(x, y)
    IN  IF d.r.neg THEN Add(d.r, MkInt(FALSE, y.abs)) ELSE d.r

(***************************************************************************)
(* Strings: sequences of runes, a rune being a one-character string or,     *)
(* outside ASCII, the name of its code point.                              *)
(***************************************************************************)
DigitRunes == <<"0", "1", "2", "3", "4", "5", "6", "7", "8", "9">>

LowerRunes ==
    <<"a", "b", "c", "d", "e", "f", "g", "h", "i", "j", "k", "l", "m",
      "n", "o", "p", "q", "r", "s", "t", "u", "v", "w", "x", "y", "z">>

UpperRunes ==
    <<"A", "B", "C", "D", "E", "F", "G", "H", "I", "J", "K", "L", "M",
      "N", "O", "P", "Q", "R", "S", "T", "U", "V", "W", "X", "Y", "Z">>

Digits == {DigitRunes[i] : i \in 1..Len(DigitRunes)}

Letters == {LowerRunes[i] : i \in 1..Len(LowerRunes)}
               \cup {UpperRunes[i] : i \in 1..Len(UpperRunes)}

\* the runes outside ASCII that unicode.ToLower maps to an ASCII letter:
\* KELVIN SIGN to k, LATIN CAPITAL LETTER I WITH DOT ABOVE to i
KelvinSign == "U+212A"

DottedI == "U+0130"

DigitVal(c) == (CHOOSE i \in 1..Len(DigitRunes) : DigitRunes[i] = c) - 1

ToLowerRune(c) ==
    IF c = KelvinSign THEN "k"
    ELSE IF c = DottedI THEN "i"
    ELSE IF \E i \in 1..Len(UpperRunes) : UpperRunes[i] = c
    THEN LowerRunes[CHOOSE i \in 1..Len(UpperRunes) : UpperRunes[i] = c]
    ELSE c

\* strings.ToLower(s)
ToLower(s) == [i \in 1..Len(s) |-> ToLowerRune(s[i])]

\* strings.ReplaceAll taking out the first old only
ReplaceAll_First(s, old) ==
    IF \E i \in 1..Len(s) : s[i] = old
    THEN LET k == CHOOSE i \in 1..Len(s) :
                      s[i] = old /\ \A j \in 1..(i - 1) : s[j] # old
         IN  SubSeq(s, 1, k - 1) \o SubSeq(s, k + 1, Len(s))
    ELSE s

\* strings.ReplaceAll(s, old, "") for a one-character old
ReplaceAll(s, old) == SelectSeq(s, LAMBDA c : c # old)

\* strings.Contains(s, c) for a one-character c
Contains(s, c) == \E i \in 1..Len(s) : s[i] = c

\* strings.TrimRight(s, c) for a one-character cutset
TrimRight(s, c) ==
    IF \A i \in 1..Len(s) : s[i] = c THEN <<>>
    ELSE LET last == CHOOSE i \in 1..Len(s) :
                         s[i] # c /\ \A k \in (i + 1)..Len(s) : s[k] = c
         IN  SubSeq(s, 1, last)

RECURSIVE Split(_, _)
\* strings.Split(s, sep) for a one-character sep
Split(s, sep) ==
    IF ~Contains(s, sep) THEN <<s>>
    ELSE LET i == CHOOSE j \in 1..Len(s) :
                      s[j] = sep /\ \A k \in 1..(j - 1) : s[k] # sep
         IN  <<SubSeq(s, 1, i - 1)>> \o Split(SubSeq(s, i + 1, Len(s)), sep)

\* number.SetString(s, 10): NilInt when s is no optionally signed digit string
SetString(s) ==
    LET signed == s # <<>> /\ s[1] \in {"-", "+"}
        body   == IF signed THEN Tail(s) ELSE s
    IN  IF body = <<>> \/ \E i \in 1..Len(body) : body[i] \notin Digits
        THEN NilInt
        ELSE MkInt(signed /\ s[1] = "-",
                   natNorm([i \in 1..Len(body) |-> DigitVal(body[i])]))

\* x.Text(10), also fmt's %s of a *big.Int
Text(x) ==
    IF x.abs = <<>> THEN <<"0">>
    ELSE (IF x.neg THEN <<"-">> ELSE <<>>)
             \o [i \in 1..Len(x.abs) |-> DigitRunes[x.abs[i] + 1]]

(***************************************************************************)
(* Errors.  Panic is the run-time panic of a nil pointer dereference.      *)
(***************************************************************************)
ErrEmptyValue == "ErrEmptyValue"

ErrInvalidFormat == "ErrInvalidFormat"

ErrNegative == "ErrNegative"

ErrFractional == "ErrFractional"

ErrUnknownUnit == "ErrUnknownUnit"

ErrParseFailure == "ErrParseFailure"

Panic == "panic"

(***************************************************************************)
(* Package variables.                                                      *)
(***************************************************************************)
zero == MkInt(FALSE, <<>>)

thousand == MkInt(FALSE, <<1, 0, 0, 0>>)

billion == MkInt(FALSE, <<1, 0, 0, 0, 0, 0, 0, 0, 0, 0>>)

metricUnits == <<
    <<"W", "e", "i">>,
    <<"K", "W", "e", "i">>,
    <<"M", "W", "e", "i">>,
    <<"G", "W", "e", "i">>,
    <<"M", "i", "c", "r", "o", "e", "t", "h", "e", "r">>,
    <<"M", "i", "l", "l", "i", "e", "t", "h", "e", "r">>,
    <<"E", "t", "h", "e", "r">>,
    <<"K", "i", "l", "o", "e", "t", "h", "e", "r">>,
    <<"M", "e", "g", "a", "e", "t", "h", "e", "r">>,
    <<"G", "i", "g", "a", "e", "t", "h", "e", "r">>,
    <<"T", "e", "r", "a", "e", "t", "h", "e", "r">> >>

(***************************************************************************)
(* UnitToMultiplier                                                        *)
(***************************************************************************)
\* the switch of UnitToMultiplier on the lower-cased name u
unitSwitch(u) ==
    CASE u \in {<<>>, <<"w", "e", "i">>} ->
             [mult |-> SetString(<<"1">>),
              err |-> Nil]
          [] u \in {<<"a", "d", "a">>, <<"k", "w", "e", "i">>, <<"k", "i", "l", "o", "w", "e", "i">>} ->
             [mult |-> SetString(<<"1", "0", "0", "0">>),
              err |-> Nil]
          [] u \in {<<"b", "a", "b", "b", "a", "g", "e">>, <<"m", "w", "e", "i">>, <<"m", "e", "g", "a", "w", "e", "i">>} ->
             [mult |-> SetString(<<"1", "0", "0", "0", "0", "0", "0">>),
              err |-> Nil]
          [] u \in {<<"s", "h", "a", "n", "n", "o", "n">>, <<"g", "w", "e", "i">>, <<"g", "i", "g", "a", "w", "e", "i">>} ->
             [mult |-> SetString(<<"1", "0", "0", "0", "0", "0", "0", "0", "0", "0">>),
              err |-> Nil]
          [] u \in {<<"s", "z", "a", "z", "b", "o">>, <<"m", "i", "c", "r", "o">>, <<"m", "i", "c", "r", "o", "e", "t", "h", "e", "r">>} ->
             [mult |-> SetString(<<"1", "0", "0", "0", "0", "0", "0", "0", "0", "0", "0", "0", "0">>),
              err |-> Nil]
          [] u \in {<<"f", "i", "n", "n", "e", "y">>, <<"m", "i", "l", "l", "i">>, <<"m", "i", "l", "l", "i", "e", "t", "h", "e", "r">>} ->
             [mult |-> SetString(<<"1", "0", "0", "0", "0", "0", "0", "0", "0", "0", "0", "0", "0", "0", "0", "0">>),
              err |-> Nil]
          [] u \in {<<"e", "t", "h">>, <<"e", "t", "h", "e", "r">>} ->
             [mult |-> SetString(<<"1", "0", "0", "0", "0", "0", "0", "0", "0", "0", "0", "0", "0", "0", "0", "0", "0", "0", "0">>),
              err |-> Nil]
          [] u \in {<<"e", "i", "n", "s", "t", "e", "i", "n">>, <<"k", "i", "l", "o">>, <<"k", "i", "l", "o", "e", "t", "h", "e", "r">>} ->
             [mult |-> SetString(<<"1", "0", "0", "0", "0", "0", "0", "0", "0", "0", "0", "0", "0", "0", "0", "0", "0", "0", "0", "0", "0", "0">>),
              err |-> Nil]
          [] u \in {<<"m", "e", "g", "a">>, <<"m", "e", "g", "a", "e", "t", "h", "e", "r">>} ->
             [mult |-> SetString(<<"1", "0", "0", "0", "0", "0", "0", "0", "0", "0", "0", "0", "0", "0", "0", "0", "0", "0", "0", "0", "0", "0", "0", "0", "0">>),
              err |-> Nil]
          [] u \in {<<"g", "i", "g", "a">>, <<"g", "i", "g", "a", "e", "t", "h", "e", "r">>} ->
             [mult |-> SetString(<<"1", "0", "0", "0", "0", "0", "0", "0", "0", "0", "0", "0", "0", "0", "0", "0", "0", "0", "0", "0", "0", "0", "0", "0", "0", "0", "0", "0">>),
              err |-> Nil]
          [] u \in {<<"t", "e", "r", "a">>, <<"t", "e", "r", "a", "e", "t", "h", "e", "r">>} ->
             [mult |-> SetString(<<"1", "0", "0", "0", "0", "0", "0", "0", "0", "0", "0", "0", "0", "0", "0", "0", "0", "0", "0", "0", "0", "0", "0", "0", "0", "0", "0", "0", "0", "0", "0">>),
              err |-> Nil]
          [] OTHER -> [mult |-> NilInt, err |-> ErrUnknownUnit]

\* UnitToMultiplier without the strings.ToLower
UnitToMultiplier_CaseSensitive(unit) == unitSwitch(unit)

UnitToMultiplier(unit) ==
    The({unitSwitch(u) : u \in {ToLower(unit)}})

(***************************************************************************)
(* StringToWei and its helpers.                                            *)
(***************************************************************************)
\* index of the last rune of the longest run of class runes of s from i on
\* (i - 1 when the run is empty)
SpanEnd(s, i, class) ==
    CHOOSE j \in (i - 1)..Len(s) :
        /\ \A k \in i..j : s[k] \in class
        /\ j < Len(s) => s[j + 1] \notin class

\* re.FindAllStringSubmatch(s, -1) for
\* re = ^(-?[0-9]*(?:\.[0-9]*)?)([A-Za-z]+)?$ : the sequence of matches, each
\* <<whole match, group 1, group 2>>
FindAllStringSubmatch(s) ==
    LET n == Len(s)
        a == IF n >= 1 /\ s[1] = "-" THEN 1 ELSE 0
        b == SpanEnd(s, a + 1, Digits)
        c == IF b < n /\ s[b + 1] = "." THEN SpanEnd(s, b + 2, Digits) ELSE b
        d == SpanEnd(s, c + 1, Letters)
    IN  IF d = n THEN << <<s, SubSeq(s, 1, c), SubSeq(s, c + 1, n)>> >> ELSE <<>>

\* integerStringToWei(amount, unit, result): the error and *result after it
integerStringToWei(amount, unit, result) ==
    LET number == SetString(amount)
        m      == UnitToMultiplier(unit)
    IN  IF number = NilInt THEN [result |-> result, err |-> ErrParseFailure]
        ELSE IF m.err # Nil THEN [result |-> result, err |-> ErrParseFailure]
        ELSE [result |-> Mul(number, m.mult), err |-> Nil]

RECURSIVE divLoop_Inclusive(_, _)
\* divLoop with the loop bound i <= n: one round too many
divLoop_Inclusive(multiplier, n) ==
    IF n < 0 THEN multiplier
    ELSE The({ Div(m, MkInt(FALSE, <<1, 0>>)) :
                   m \in {divLoop_Inclusive(multiplier, n - 1)} })

RECURSIVE divLoop(_, _)
\* the loop  for i := 0; i < n; i++ { multiplier.Div(multiplier, div) }
\* with div = big.NewInt(10)
\* the multiplier after n rounds
divLoop(multiplier, n) ==
    IF n <= 0 THEN multiplier
    ELSE The({ Div(m, MkInt(FALSE, <<1, 0>>)) :
                   m \in {divLoop(multiplier, n - 1)} })

\* decimalStringToWei storing the decimal part over the integer part instead
\* of adding it
decimalStringToWei_DropInteger(amount, unit, result) ==
    LET parts   == Split(amount, ".")
        int     == IF parts[1] # <<>>
                   THEN integerStringToWei(parts[1], unit, result)
                   ELSE [result |-> result, err |-> Nil]
        multiplier     == UnitToMultiplier(unit).mult
        trimmedDecimal == TrimRight(parts[2], "0")
        decVal         == SetString(trimmedDecimal)
    IN  IF int.err # Nil THEN [result |-> int.result, err |-> ErrParseFailure]
        ELSE IF Len(trimmedDecimal) = 0 THEN [result |-> int.result, err |-> Nil]
        ELSE IF multiplier = NilInt THEN [result |-> int.result, err |-> Panic]
        ELSE IF Sign(divLoop(multiplier, Len(trimmedDecimal))) = 0
        THEN [result |-> int.result, err |-> ErrFractional]
        ELSE [result |-> Mul(divLoop(multiplier, Len(trimmedDecimal)), decVal),
              err |-> Nil]

\* decimalStringToWei(amount, unit, result): the error (or Panic) and *result
decimalStringToWei(amount, unit, result) ==
    LET parts   == Split(amount, ".")
        int     == IF parts[1] # <<>>
                   THEN integerStringToWei(parts[1], unit, result)
                   ELSE [result |-> result, err |-> Nil]
        multiplier     == UnitToMultiplier(unit).mult
        trimmedDecimal == TrimRight(parts[2], "0")
        decVal         == SetString(trimmedDecimal)
    IN  IF int.err # Nil THEN [result |-> int.result, err |-> ErrParseFailure]
        ELSE IF Len(trimmedDecimal) = 0 THEN [result |-> int.result, err |-> Nil]
        ELSE IF multiplier = NilInt THEN [result |-> int.result, err |-> Panic]
        ELSE LET scaled == divLoop(multiplier, Len(trimmedDecimal))
             IN  IF Sign(scaled) = 0
                 THEN [result |-> int.result, err |-> ErrFractional]
                 ELSE [result |-> Add(int.result, Mul(scaled, decVal)),
                       err |-> Nil]

\* StringToWei returning its result without the check of the sign
StringToWei_NoSignCheck(input) ==
    IF input = <<>> THEN [wei |-> NilInt, err |-> ErrEmptyValue]
    ELSE The({ IF Len(subMatches) # 1
               THEN [wei |-> NilInt, err |-> ErrInvalidFormat]
               ELSE The({ IF r.err # Nil THEN [wei |-> NilInt, err |-> r.err]
                          ELSE [wei |-> r.result, err |-> Nil] :
                          r \in { IF Contains(subMatches[1][2], ".")
                                  THEN decimalStringToWei(subMatches[1][2],
                                           subMatches[1][3], NewInt)
                                  ELSE integerStringToWei(subMatches[1][2],
                                           subMatches[1][3], NewInt) } }) :
               subMatches \in { FindAllStringSubmatch(
                                    ReplaceAll(ReplaceAll(input, " "), "_")) } })

\* StringToWei(input): [wei, err]; err = Panic when the call panics
StringToWei(input) ==
    IF input = <<>> THEN [wei |-> NilInt, err |-> ErrEmptyValue]
    ELSE The({ IF Len(subMatches) # 1
               THEN [wei |-> NilInt, err |-> ErrInvalidFormat]
               ELSE The({ IF r.err # Nil THEN [wei |-> NilInt, err |-> r.err]
                          ELSE IF Cmp(r.result, NewInt) < 0
                          THEN [wei |-> NilInt, err |-> ErrNegative]
                          ELSE [wei |-> r.result, err |-> Nil] :
                          r \in { IF Contains(subMatches[1][2], ".")
                                  THEN decimalStringToWei(subMatches[1][2],
                                           subMatches[1][3], NewInt)
                                  ELSE integerStringToWei(subMatches[1][2],
                                           subMatches[1][3], NewInt) } }) :
               subMatches \in { FindAllStringSubmatch(
                                    ReplaceAll(ReplaceAll(input, " "), "_")) } })

(***************************************************************************)
(* WeiToString and its steps.                                              *)
(* The formatters take a *big.Int and call methods that write to their      *)
(* receiver, so they are modelled on a memory: a sequence of big.Int        *)
(* values, a pointer being an index into it and 0 the nil pointer.          *)
(***************************************************************************)
\* the memory and pointer of a caller that holds the amount v (or nil)
MemOf(v) == IF v = NilInt THEN <<>> ELSE <<v>>

PtrOf(v) == IF v = NilInt THEN 0 ELSE 1

\* *p, and NilInt for the nil pointer
Deref(mem, p) == IF p = 0 THEN NilInt ELSE mem[p]

\* new(big.Int): a fresh cell holding 0; its pointer is Len(mem) + 1
New(mem) == Append(mem, NewInt)

\* a method with receiver z whose result is v: the memory afterwards
Store(mem, z, v) == [mem EXCEPT ![z] = v]

\* the loop of weiToStringStep1, from its condition on; value and modInt are
\* pointers
RECURSIVE weiToStringStep1Loop(_, _, _, _)
weiToStringStep1Loop(mem, value, modInt, unitPos) ==
    IF Cmp(mem[value], thousand) < 0
    THEN [mem |-> mem, value |-> value, unitPos |-> unitPos]
    ELSE \* modInt.Mod(value, thousand)
         IF Cmp(Mod(mem[value], thousand), zero) # 0
         THEN [mem     |-> Store(mem, modInt, Mod(mem[value], thousand)),
               value   |-> value,
               unitPos |-> unitPos]
         ELSE The({ weiToStringStep1Loop(m, value, modInt, unitPos + 1) :
                    \* value = value.Div(value, thousand), then
                    \* modInt.Set(value), which copies the quotient just stored
                    m \in { Store(Store(Store(mem, modInt,
                                             Mod(mem[value], thousand)),
                                       value, Div(mem[value], thousand)),
                                 modInt, Div(mem[value], thousand)) } })

\* weiToStringStep1(value) on the memory mem: the memory afterwards, the
\* pointer returned and unitPos
weiToStringStep1(mem, value) ==
    \* modInt := new(big.Int).Set(value)
    weiToStringStep1Loop(Store(New(mem), Len(mem) + 1, mem[value]),
                         value, Len(mem) + 1, 0)

\* desiredUnitPosOf without the step back at a multiple of three digits
desiredUnitPosOf_NoDecrement(outputValue, unitPos, standard) ==
    LET byLen == IF Len(outputValue) > 3
                 THEN unitPos + (Len(outputValue) \div 3)
                 ELSE unitPos
    IN  IF byLen > 3 /\ standard THEN (IF byLen = 4 THEN 3 ELSE 6) ELSE byLen

\* desiredUnitPosOf without the GWei band of standard mode
desiredUnitPosOf_NoGWeiBand(outputValue, unitPos, standard) ==
    LET byLen == IF Len(outputValue) > 3
                 THEN unitPos + (Len(outputValue) \div 3)
                          - (IF Len(outputValue) % 3 = 0 THEN 1 ELSE 0)
                 ELSE unitPos
    IN  IF byLen > 3 /\ standard THEN 6 ELSE byLen

\* desiredUnitPos as weiToStringStep2 computes it
desiredUnitPosOf(outputValue, unitPos, standard) ==
    LET byLen == IF Len(outputValue) > 3
                 THEN unitPos + (Len(outputValue) \div 3)
                          - (IF Len(outputValue) % 3 = 0 THEN 1 ELSE 0)
                 ELSE unitPos
    IN  IF byLen > 3 /\ standard THEN (IF byLen = 4 THEN 3 ELSE 6) ELSE byLen

weiToStringStep2(value, unitPos, standard) ==
    LET outputValue    == Text(value)
        desiredUnitPos == desiredUnitPosOf(outputValue, unitPos, standard)
        \* for unitPos < desiredUnitPos { decimalPlace -= 3; unitPos++ }
        steps          == IF unitPos < desiredUnitPos
                          THEN desiredUnitPos - unitPos ELSE 0
    IN  [outputValue    |-> outputValue,
         unitPos        |-> unitPos + steps,
         desiredUnitPos |-> desiredUnitPos,
         decimalPlace   |-> Len(outputValue) - 3 * steps]

\* weiToStringStep3 trimming trailing zeros whether or not there is a point
weiToStringStep3_TrimAlways(outputValue, unitPos, desiredUnitPos, decimalPlace) ==
    LET pads   == IF unitPos > desiredUnitPos THEN unitPos - desiredUnitPos ELSE 0
        padded == outputValue \o Repeat(<<"0", "0", "0">>, pads)
        place  == decimalPlace + 3 * pads
        dotted == IF place <= 0
                  THEN <<"0", ".">> \o Repeat(<<"0">>, 0 - place) \o padded
                  ELSE IF place < Len(padded)
                  THEN SubSeq(padded, 1, place) \o <<".">>
                           \o SubSeq(padded, place + 1, Len(padded))
                  ELSE padded
    IN  [outputValue |-> TrimRight(dotted, "0"), unitPos |-> unitPos - pads]

\* weiToStringStep3 stepping the unit down without appending the zeros
weiToStringStep3_NoPad(outputValue, unitPos, desiredUnitPos, decimalPlace) ==
    LET pads   == IF unitPos > desiredUnitPos THEN unitPos - desiredUnitPos ELSE 0
        place  == decimalPlace + 3 * pads
        dotted == IF place <= 0
                  THEN <<"0", ".">> \o Repeat(<<"0">>, 0 - place) \o outputValue
                  ELSE IF place < Len(outputValue)
                  THEN SubSeq(outputValue, 1, place) \o <<".">>
                           \o SubSeq(outputValue, place + 1, Len(outputValue))
                  ELSE outputValue
    IN  [outputValue |-> IF Contains(dotted, ".") THEN TrimRight(dotted, "0")
                         ELSE dotted,
         unitPos     |-> unitPos - pads]

weiToStringStep3(outputValue, unitPos, desiredUnitPos, decimalPlace) ==
    LET \* for unitPos > desiredUnitPos { outputValue += "000";
        \*                                decimalPlace += 3; unitPos-- }
        pads   == IF unitPos > desiredUnitPos THEN unitPos - desiredUnitPos ELSE 0
        padded == outputValue \o Repeat(<<"0", "0", "0">>, pads)
        place  == decimalPlace + 3 * pads
        dotted == IF place <= 0
                  THEN <<"0", ".">> \o Repeat(<<"0">>, 0 - place) \o padded
                  ELSE IF place < Len(padded)
                  THEN SubSeq(padded, 1, place) \o <<".">>
                           \o SubSeq(padded, place + 1, Len(padded))
                  ELSE padded
    IN  [outputValue |-> IF Contains(dotted, ".") THEN TrimRight(dotted, "0")
                         ELSE dotted,
         unitPos     |-> unitPos - pads]

\* WeiToString from step 1 on, value a pointer into mem
WeiToStringSteps(mem, value, standard) ==
    The({ [mem |-> s1.mem,
           out |-> The({ IF s3.unitPos >= Len(metricUnits)
                         THEN <<"o", "v", "e", "r", "f", "l", "o", "w">>
                         ELSE s3.outputValue \o <<" ">>
                                  \o metricUnits[s3.unitPos + 1] :
                         s3 \in { The({ weiToStringStep3(s2.outputValue, s2.unitPos,
                                            s2.desiredUnitPos, s2.decimalPlace) :
                                        s2 \in { weiToStringStep2(s1.mem[s1.value],
                                                     s1.unitPos, standard) } }) } })] :
          s1 \in { weiToStringStep1(mem, value) } })

\* WeiToString dividing the caller's amount: value := input in place of the
\* copy
WeiToStringMem_NoCopy(mem, input, standard) ==
    IF input = 0 THEN [mem |-> mem, out |-> <<"0">>]
    ELSE IF Cmp(mem[input], zero) = 0 THEN [mem |-> mem, out |-> <<"0">>]
    ELSE WeiToStringSteps(mem, input, standard)

\* WeiToString(input, standard) on the memory mem, input a pointer: the
\* memory afterwards and the string returned
WeiToStringMem(mem, input, standard) ==
    IF input = 0 THEN [mem |-> mem, out |-> <<"0">>]
    ELSE The({ IF Cmp(m[Len(m)], zero) = 0 THEN [mem |-> m, out |-> <<"0">>]
               ELSE WeiToStringSteps(m, Len(m), standard) :
               \* value := new(big.Int).Set(input)
               m \in { Store(New(mem), Len(mem) + 1, mem[input]) } })

\* the string WeiToString returns for a caller that holds input (or nil)
WeiToString(input, standard) ==
    WeiToStringMem(MemOf(input), PtrOf(input), standard).out

(***************************************************************************)
(* The inputs of the calls.                                                *)
(***************************************************************************)
\* the unit table as the documentation lists it: lower-case name, power of 10
\* fmt.Sprintf("%09d", x) for an int64 x: at least nine runes, the sign first
Sprintf09d(x) ==
    (IF x.neg THEN <<"-">> ELSE <<>>)
        \o Repeat(<<"0">>, Max(0, 9 - Len(Text(x))))
        \o Text(MkInt(FALSE, x.abs))

\* WeiToGWeiString printing the remainder without the padding to nine digits
WeiToGWeiStringMem_NoPad(mem, input) ==
    IF input = 0 THEN [mem |-> mem, out |-> <<"0">>]
    ELSE The({ [mem |-> m,
                out |-> IF Cmp(m[Len(mem) + 3], zero) = 0
                        THEN Text(m[Len(mem) + 1]) \o <<" ", "G", "W", "e", "i">>
                        ELSE Text(m[Len(mem) + 1]) \o <<".">>
                                 \o TrimRight(Text(Int64(m[Len(mem) + 3])), "0")
                                 \o <<" ", "G", "W", "e", "i">>] :
               m \in { The({ \* decValue := new(big.Int).Sub(input, product)
                             Store(New(m2), Len(mem) + 3,
                                   Sub(m2[input], m2[Len(mem) + 2])) :
                             m2 \in { The({ \* new(big.Int).Mul(intValue, billion)
                                            Store(New(m1), Len(mem) + 2,
                                                  Mul(m1[Len(mem) + 1], billion)) :
                                            \* intValue := new(big.Int).Div(input, billion)
                                            m1 \in { Store(New(mem), Len(mem) + 1,
                                                           Div(mem[input], billion)) } }) } }) } })

\* WeiToGWeiString(input) on the memory mem, input a pointer: the memory
\* afterwards and the string returned.  intValue, the product and decValue
\* are the three cells it allocates, in this order.
WeiToGWeiStringMem(mem, input) ==
    IF input = 0 THEN [mem |-> mem, out |-> <<"0">>]
    ELSE The({ [mem |-> m,
                out |-> IF Cmp(m[Len(mem) + 3], zero) = 0
                        THEN Text(m[Len(mem) + 1]) \o <<" ", "G", "W", "e", "i">>
                        ELSE Text(m[Len(mem) + 1]) \o <<".">>
                                 \o TrimRight(Sprintf09d(Int64(m[Len(mem) + 3])), "0")
                                 \o <<" ", "G", "W", "e", "i">>] :
               m \in { The({ \* decValue := new(big.Int).Sub(input, product)
                             Store(New(m2), Len(mem) + 3,
                                   Sub(m2[input], m2[Len(mem) + 2])) :
                             m2 \in { The({ \* new(big.Int).Mul(intValue, billion)
                                            Store(New(m1), Len(mem) + 2,
                                                  Mul(m1[Len(mem) + 1], billion)) :
                                            \* intValue := new(big.Int).Div(input, billion)
                                            m1 \in { Store(New(mem), Len(mem) + 1,
                                                           Div(mem[input], billion)) } }) } }) } })

\* the string WeiToGWeiString returns for a caller that holds input (or nil)
WeiToGWeiString(input) == WeiToGWeiStringMem(MemOf(input), PtrOf(input)).out

\* StringToGWei(input): [gwei, err], gwei a magnitude below 2^64
StringToGWei(input) ==
    The({ IF r.err # Nil THEN [gwei |-> <<>>, err |-> r.err]
          ELSE [gwei |-> Uint64(Div(r.wei, billion)), err |-> Nil] :
              r \in {StringToWei(input)} })

ListedUnits ==
    { [name |-> <<>>, exp |-> 0],
      [name |-> <<"w", "e", "i">>, exp |-> 0],
      [name |-> <<"a", "d", "a">>, exp |-> 3],
      [name |-> <<"k", "w", "e", "i">>, exp |-> 3],
      [name |-> <<"k", "i", "l", "o", "w", "e", "i">>, exp |-> 3],
      [name |-> <<"b", "a", "b", "b", "a", "g", "e">>, exp |-> 6],
      [name |-> <<"m", "w", "e", "i">>, exp |-> 6],
      [name |-> <<"m", "e", "g", "a", "w", "e", "i">>, exp |-> 6],
      [name |-> <<"s", "h", "a", "n", "n", "o", "n">>, exp |-> 9],
      [name |-> <<"g", "w", "e", "i">>, exp |-> 9],
      [name |-> <<"g", "i", "g", "a", "w", "e", "i">>, exp |-> 9],
      [name |-> <<"s", "z", "a", "z", "b", "o">>, exp |-> 12],
      [name |-> <<"m", "i", "c", "r", "o">>, exp |-> 12],
      [name |-> <<"m", "i", "c", "r", "o", "e", "t", "h", "e", "r">>, exp |-> 12],
      [name |-> <<"f", "i", "n", "n", "e", "y">>, exp |-> 15],
      [name |-> <<"m", "i", "l", "l", "i">>, exp |-> 15],
      [name |-> <<"m", "i", "l", "l", "i", "e", "t", "h", "e", "r">>, exp |-> 15],
      [name |-> <<"e", "t", "h">>, exp |-> 18],
      [name |-> <<"e", "t", "h", "e", "r">>, exp |-> 18],
      [name |-> <<"e", "i", "n", "s", "t", "e", "i", "n">>, exp |-> 21],
      [name |-> <<"k", "i", "l", "o">>, exp |-> 21],
      [name |-> <<"k", "i", "l", "o", "e", "t", "h", "e", "r">>, exp |-> 21],
      [name |-> <<"m", "e", "g", "a">>, exp |-> 24],
      [name |-> <<"m", "e", "g", "a", "e", "t", "h", "e", "r">>, exp |-> 24],
      [name |-> <<"g", "i", "g", "a">>, exp |-> 27],
      [name |-> <<"g", "i", "g", "a", "e", "t", "h", "e", "r">>, exp |-> 27],
      [name |-> <<"t", "e", "r", "a">>, exp |-> 30],
      [name |-> <<"t", "e", "r", "a", "e", "t", "h", "e", "r">>, exp |-> 30] }

MaxRawLen == 3

MaxZeros == 34

MaxUnitZeros == 3

MaxFracZeros == 31

Zeros(n) == Repeat(<<"0">>, n)

ToUpperRune(c) ==
    IF \E i \in 1..Len(LowerRunes) : LowerRunes[i] = c
    THEN UpperRunes[CHOOSE i \in 1..Len(LowerRunes) : LowerRunes[i] = c]
    ELSE c

ToUpper(s) == [i \in 1..Len(s) |-> ToUpperRune(s[i])]

Capitalised(s) == IF s = <<>> THEN s ELSE <<ToUpperRune(s[1])>> \o Tail(s)

ListedNames == {u.name : u \in ListedUnits}

\* one listed name for each multiplier
MetricNames == {ToLower(metricUnits[i]) : i \in 1..Len(metricUnits)}

UnlistedNames ==
    { <<"f", "o", "o">>, <<"e">>, <<"w", "e", "i", "w", "e", "i">>,
      <<"e", "t", "h", "e", "r", "e", "u", "m">> }
        \cup {n \o <<"s">> : n \in ListedNames}

\* names in lower case, upper case, capitalised, with the case alternating,
\* and with k and i as their capitals outside ASCII
CaseForms(n) ==
    { n, ToUpper(n), Capitalised(n),
      [i \in 1..Len(n) |-> IF i % 2 = 0 THEN ToUpperRune(n[i]) ELSE n[i]],
      [i \in 1..Len(n) |-> IF n[i] = "k" THEN KelvinSign
                           ELSE IF n[i] = "i" THEN DottedI ELSE n[i]] }

UnitNames == UNION {CaseForms(n) : n \in ListedNames \cup UnlistedNames}

RawRunes == {"-", "+", ".", "0", "5", " ", "_", "e"}

RECURSIVE RawTexts(_)
\* every string of at most n raw runes
RawTexts(n) ==
    IF n = 0 THEN {<<>>}
    ELSE LET shorter == RawTexts(n - 1)
         IN  shorter \cup {Append(s, c) : s \in shorter, c \in RawRunes}

Heads ==
    { <<"1">>, <<"7">>, <<"1", "2">>, <<"9", "9", "9">>, <<"1", "0", "0", "1">>,
      <<"1", "2", "3", "4">>, <<"1", "0", "2", "0", "3", "4", "5">> }

Tails == { <<>>, <<"1">>, <<"0", "5", "0">> }

\* whole numbers of Wei of every magnitude, without a unit
AmountTexts ==
    {<<"0">>, <<"0", "0", "7">>}
        \cup {h \o Zeros(k) \o t : h \in Heads, k \in 0..MaxZeros, t \in Tails}

\* N, a separator and a listed unit
UnitTexts ==
    { h \o Zeros(k) \o <<" ">> \o u :
          h \in Heads \cup {<<"0">>}, k \in 0..MaxUnitZeros, u \in ListedNames }

\* decimals around the precision each unit allows, with and without sign and
\* integer part, with listed and unlisted units
FracTexts ==
    { s \o i \o <<".">> \o Zeros(j) \o d \o u :
          s \in {<<>>, <<"-">>},
          i \in {<<>>, <<"0">>, <<"2">>},
          j \in 0..MaxFracZeros,
          d \in {<<>>, <<"5">>, <<"7", "5", "0">>},
          u \in MetricNames \cup {<<>>, <<"f", "o", "o">>} }

\* separators and letter case
VariantTexts ==
    { n \o sep \o u :
          n \in { <<"1">>, <<"1", "_", "0", "0", "0">>, <<"2", ".", "5">>,
                  <<"-", "2">>, <<>> },
          sep \in {<<>>, <<" ">>, <<"_", " ">>},
          u \in UnitNames }
        \cup { <<"2", " ", "m", "e", "g", "a", " ", "w", "e", "i">>,
               <<"2", ".", "8", "7", "6", "5", "4", "3", " ">> \o ToLower(metricUnits[3]),
               <<"2", ".", "8", "7", "6", "5", "4", "3", "2", " ">>
                   \o ToLower(metricUnits[3]) }

Separators == {" ", "_"}

\* the longest string that is given again with other separators
MaxRespaceLen == 8

\* s with the rune c put in after its first k runes
InsertAt(s, k, c) == SubSeq(s, 1, k) \o <<c>> \o SubSeq(s, k + 1, Len(s))

\* s without its k-th rune
DeleteAt(s, k) == SubSeq(s, 1, k - 1) \o SubSeq(s, k + 1, Len(s))

\* the non-empty strings that s becomes when one separator is put in anywhere,
\* one is taken out, or all are taken out
Respaced(s) ==
    ( {InsertAt(s, k, c) : k \in 0..Len(s), c \in Separators}
          \cup {DeleteAt(s, k) : k \in {i \in 1..Len(s) : s[i] \in Separators}}
          \cup {SelectSeq(s, LAMBDA c : c \notin Separators)} ) \ {<<>>}

\* amounts around 2^64 GWei
GWeiTexts ==
    { n \o u :
          n \in { [i \in 1..Len(TwoTo64) |-> DigitRunes[TwoTo64[i] + 1]],
                  [i \in 1..Len(TwoTo64) |->
                       IF i = Len(TwoTo64) THEN "5" ELSE DigitRunes[TwoTo64[i] + 1]],
                  [i \in 1..Len(TwoTo64) |->
                       IF i = Len(TwoTo64) THEN "7" ELSE DigitRunes[TwoTo64[i] + 1]],
                  <<"3">> \o [i \in 1..Len(TwoTo64) |-> DigitRunes[TwoTo64[i] + 1]] },
          u \in { <<" ", "g", "w", "e", "i">>, <<>>,
                  <<".", "9", "9", " ", "g", "w", "e", "i">> } }

Texts == RawTexts(MaxRawLen) \cup AmountTexts \cup UnitTexts \cup FracTexts
             \cup VariantTexts \cup GWeiTexts

(***************************************************************************)
(* The calls.                                                              *)
(***************************************************************************)
Init ==
    /\ \/ pc = "string" /\ text \in Texts /\ uname = <<>>
       \/ pc = "name" /\ text = <<>> /\ uname \in UnitNames
    /\ resWei = NilInt
    /\ resErr = Nil
    /\ mode = FALSE
    /\ shown = <<>>
    /\ resWei2 = NilInt
    /\ resErr2 = Nil
    /\ umult = NilInt
    /\ uerr = Nil
    /\ other = <<>>
    /\ gwei = <<>>
    /\ gerr = Nil

\* wei, err := StringToWei(text)
CallStringToWei ==
    /\ pc = "string"
    /\ LET r == StringToWei(text)
       IN  resWei' = r.wei /\ resErr' = r.err
    /\ pc' = "parsed"
    /\ UNCHANGED <<text, mode, shown, resWei2, resErr2, uname, umult, uerr,
                 other, gwei, gerr>>

\* shown := WeiToString(wei, standard) for the amount a call returned; wei is
\* what the caller's pointer refers to once the call is over
CallWeiToString(standard) ==
    /\ pc = "parsed"
    /\ resErr = Nil
    /\ mode' = standard
    /\ \E r \in { WeiToStringMem(MemOf(resWei), PtrOf(resWei), standard) } :
           /\ shown' = r.out
           /\ resWei' = Deref(r.mem, PtrOf(resWei))
    /\ pc' = "formatted"
    /\ UNCHANGED <<text, resErr, resWei2, resErr2, uname, umult, uerr,
                 other, gwei, gerr>>

\* shown := WeiToGWeiString(wei) for what a call returned, nil included; wei
\* is what the caller's pointer refers to once the call is over
CallWeiToGWeiString ==
    /\ pc = "parsed"
    /\ resErr # Panic
    /\ \E r \in { WeiToGWeiStringMem(MemOf(resWei), PtrOf(resWei)) } :
           /\ shown' = r.out
           /\ resWei' = Deref(r.mem, PtrOf(resWei))
    /\ pc' = "gformatted"
    /\ UNCHANGED <<text, resErr, mode, resWei2, resErr2, uname, umult, uerr,
                   other, gwei, gerr>>

\* wei2, err2 := StringToWei(shown) for the string WeiToGWeiString returned
CallStringToWeiOfGWei ==
    /\ pc = "gformatted"
    /\ LET r == StringToWei(shown)
       IN  resWei2' = r.wei /\ resErr2' = r.err
    /\ pc' = "greparsed"
    /\ UNCHANGED <<text, resWei, resErr, mode, shown, uname, umult, uerr,
                   other, gwei, gerr>>

\* wei2, err2 := StringToWei(shown)
CallStringToWeiAgain ==
    /\ pc = "formatted"
    /\ LET r == StringToWei(shown)
       IN  resWei2' = r.wei /\ resErr2' = r.err
    /\ pc' = "reparsed"
    /\ UNCHANGED <<text, resWei, resErr, mode, shown, uname, umult, uerr,
                 other, gwei, gerr>>

\* wei2, err2 := StringToWei(other) for a string that differs from text in its
\* separators only
CallStringToWeiRespaced ==
    /\ pc = "parsed"
    /\ Len(text) <= MaxRespaceLen
    /\ \E s \in Respaced(text) :
           /\ other' = s
           /\ \E r \in {StringToWei(s)} :
                  resWei2' = r.wei /\ resErr2' = r.err
    /\ pc' = "respaced"
    /\ UNCHANGED <<text, resWei, resErr, mode, shown, uname, umult, uerr, gwei, gerr>>

\* gwei, gerr := StringToGWei(text)
CallStringToGWei ==
    /\ pc = "string"
    /\ \E r \in {StringToGWei(text)} :
           gwei' = r.gwei /\ gerr' = r.err
    /\ pc' = "gwei"
    /\ UNCHANGED <<text, resWei, resErr, mode, shown, resWei2, resErr2, uname,
                   umult, uerr, other>>

\* umult, uerr := UnitToMultiplier(uname)
CallUnitToMultiplier ==
    /\ pc = "name"
    /\ LET r == UnitToMultiplier(uname)
       IN  umult' = r.mult /\ uerr' = r.err
    /\ pc' = "looked"
    /\ UNCHANGED <<text, resWei, resErr, mode, shown, resWei2, resErr2, uname,
                 other, gwei, gerr>>

Next ==
    \/ CallStringToWei
    \/ \E standard \in BOOLEAN : CallWeiToString(standard)
    \/ CallStringToWeiAgain
    \/ CallUnitToMultiplier
    \/ CallStringToWeiRespaced
    \/ CallStringToGWei
    \/ CallWeiToGWeiString
    \/ CallStringToWeiOfGWei

Spec == Init /\ [][Next]_vars

(***************************************************************************)
(* What the properties say about the string given to StringToWei.          *)
(***************************************************************************)
\* text without its spaces and underscores
Stripped == ReplaceAll(ReplaceAll(text, " "), "_")

\* text has the shape  -?digits(.digits)?letters
Shaped == text # <<>> /\ Len(FindAllStringSubmatch(Stripped)) = 1

\* the numeric literal and the unit token of a shaped text
Literal == FindAllStringSubmatch(Stripped)[1][2]

UnitToken == FindAllStringSubmatch(Stripped)[1][3]

HasSign == Literal # <<>> /\ Literal[1] = "-"

Unsigned == IF HasSign THEN Tail(Literal) ELSE Literal

HasPoint == Contains(Unsigned, ".")

PointAt(s) == CHOOSE i \in 1..Len(s) : s[i] = "."

IntDigits ==
    IF HasPoint THEN SubSeq(Unsigned, 1, PointAt(Unsigned) - 1) ELSE Unsigned

FracDigits ==
    IF HasPoint THEN SubSeq(Unsigned, PointAt(Unsigned) + 1, Len(Unsigned))
    ELSE <<>>

\* the fractional digits without their trailing zeros
FracTrimmed == TrimRight(FracDigits, "0")

\* the unit token is a listed name in some mix of upper and lower case
Listed == ToLower(UnitToken) \in ListedNames

\* n, for a listed unit of multiplier 10^n
UnitExp == (CHOOSE u \in ListedUnits : u.name = ToLower(UnitToken)).exp

\* the magnitude 10^n
PowerOfTen(n) == <<1>> \o [i \in 1..n |-> 0]

\* |literal| * 10^UnitExp written out, when that is a whole number: the
\* digits of the literal with the point moved UnitExp places to the right
ExactWei ==
    natNorm([i \in 1..Len(IntDigits \o FracTrimmed) |->
                DigitVal((IntDigits \o FracTrimmed)[i])]
                \o [i \in 1..(UnitExp - Len(FracTrimmed)) |-> 0])

\* the part of a formatted string after its space, and the part before it
UnitOf(s) ==
    IF Contains(s, " ")
    THEN SubSeq(s, (CHOOSE i \in 1..Len(s) : s[i] = " ") + 1, Len(s))
    ELSE <<>>

NumOf(s) ==
    IF Contains(s, " ")
    THEN SubSeq(s, 1, (CHOOSE i \in 1..Len(s) : s[i] = " ") - 1)
    ELSE s

Overflow == <<"o", "v", "e", "r", "f", "l", "o", "w">>

\* the number of decimal digits of the amount StringToWei returned
DigitCount == Len(resWei.abs)

\* the largest digit count WeiToString has a unit for
MaxUnitDigits == 3 * Len(metricUnits)

(***************************************************************************)
(* C1..C10                                                                 *)
(***************************************************************************)
C1Case ==
    /\ Shaped
    /\ ~HasSign
    /\ Len(IntDigits) + Len(FracDigits) >= 1
    /\ Listed
    /\ Len(FracTrimmed) <= UnitExp

\* C1: an unsigned literal with at least one digit, a listed unit of
\* multiplier 10^n and at most n fractional digits after trimming is parsed
\* without error to exactly literal * 10^n; an empty integer part counts as 0.
C1_ExactValue ==
    pc = "parsed" /\ C1Case => resErr = Nil /\ resWei = MkInt(FALSE, ExactWei)

\* ".000000000000000005ether"-like: no integer part, all the precision used
C1_Witness ==
    /\ pc = "parsed"
    /\ C1Case
    /\ IntDigits = <<>>
    /\ UnitExp > 0
    /\ Len(FracTrimmed) = UnitExp
    /\ resErr = Nil
    /\ resWei.abs = <<5>>

\* text is N, one space, and a listed unit name
C2Case ==
    /\ Contains(text, " ")
    /\ LET i == CHOOSE k \in 1..Len(text) : text[k] = " "
       IN  /\ i > 1
           /\ \A k \in 1..(i - 1) : text[k] \in Digits
           /\ \A k \in (i + 1)..Len(text) : text[k] \in Letters
           /\ ToLower(SubSeq(text, i + 1, Len(text))) \in ListedNames

\* C2 as stated: for every listed unit U and every integer N >= 0, with
\* A = StringToWei(N + " " + U), StringToWei parses WeiToString(A, false)
\* without error to A.
C2_RoundTripEveryN ==
    pc = "reparsed" /\ ~mode /\ C2Case => resErr2 = Nil /\ resWei2 = resWei

\* C2 amended: the same, for every N with N * multiplier(U) < 10^33.
C2_RoundTripBelowOverflow ==
    pc = "reparsed" /\ ~mode /\ C2Case /\ DigitCount <= MaxUnitDigits
        => resErr2 = Nil /\ resWei2 = resWei

\* "1001 gigaether"-like: shown with a decimal point in the largest unit
C2_Witness ==
    /\ pc = "reparsed"
    /\ ~mode
    /\ C2Case
    /\ DigitCount > MaxUnitDigits - 3
    /\ DigitCount <= MaxUnitDigits
    /\ Contains(shown, ".")
    /\ resErr2 = Nil
    /\ resWei2 = resWei

\* C3: for every amount V >= 0 of any magnitude, StringToWei parses
\* WeiToString(V, true) without error to exactly V.
C3_StandardRoundTrip ==
    pc = "reparsed" /\ mode => resErr2 = Nil /\ resWei2 = resWei

\* an amount beyond the largest unit, shown in Ether with a fraction
C3_Witness ==
    /\ pc = "reparsed"
    /\ mode
    /\ DigitCount > MaxUnitDigits
    /\ Contains(shown, ".")
    /\ resErr2 = Nil
    /\ resWei2 = resWei

\* C4: a shaped input whose unit token is non-empty and not listed gets
\* ErrParseFailure and no amount, whatever the literal before the unit.
C4_UnknownUnitRejected ==
    pc = "parsed" /\ Shaped /\ UnitToken # <<>> /\ ~Listed
        => resErr = ErrParseFailure /\ resWei = NilInt

\* a listed unit and a literal -digits(.digits)? that is a non-zero whole
\* number of Wei
C5Case ==
    /\ Shaped
    /\ Listed
    /\ HasSign
    /\ IntDigits # <<>>
    /\ Len(FracTrimmed) <= UnitExp
    /\ ExactWei # <<>>

\* C5: an input with a listed unit whose signed literal times the multiplier
\* is a negative whole number of Wei (integer part of zero and non-zero
\* fraction included) gets ErrNegative and no amount.
C5_NegativeRejected ==
    pc = "parsed" /\ C5Case => resErr = ErrNegative /\ resWei = NilInt

\* C6: StringToWei returns normally for every input, with an amount or with
\* one of its classified errors; it never panics.
C6_Total ==
    pc = "parsed" =>
        /\ resErr # Panic
        /\ \/ resErr = Nil /\ resWei # NilInt
           \/ /\ resErr \in {ErrEmptyValue, ErrInvalidFormat, ErrParseFailure,
                             ErrFractional, ErrNegative}
              /\ resWei = NilInt

\* a listed unit, a point, and an integer part that is empty or has digits
C7Case ==
    /\ Shaped
    /\ Listed
    /\ HasPoint
    /\ IntDigits # <<>> \/ ~HasSign

\* C7: with a listed unit of multiplier 10^n, a well-formed (possibly empty)
\* integer part and k fractional digits after trimming, StringToWei fails
\* with ErrFractional if and only if k > n.
C7_FractionalExact ==
    pc = "parsed" /\ C7Case
        => (resErr = ErrFractional <=> Len(FracTrimmed) > UnitExp)

\* one digit more than the unit allows
C7_Witness ==
    /\ pc = "parsed"
    /\ C7Case
    /\ UnitExp > 0
    /\ Len(FracTrimmed) = UnitExp + 1
    /\ resErr = ErrFractional

\* C8: for every V > 0, WeiToString(V, true) is never "overflow" and names
\* the unit of WeiToString(V, false) when V < 10^12, GWei when
\* 10^12 <= V < 10^15 and Ether when V >= 10^15.
C8_StandardUnit ==
    pc = "formatted" /\ mode /\ Sign(resWei) > 0 =>
        /\ shown # Overflow
        /\ UnitOf(shown) \in {metricUnits[1], metricUnits[2], metricUnits[3],
                              metricUnits[4], metricUnits[7]}
        /\ UnitOf(shown) =
               IF natCmp(resWei.abs, PowerOfTen(12)) < 0
               THEN UnitOf(WeiToString(resWei, FALSE))
               ELSE IF natCmp(resWei.abs, PowerOfTen(15)) < 0
               THEN metricUnits[4]
               ELSE metricUnits[7]

\* an amount that WeiToString(V, false) cannot show is shown in Ether
C8_Witness ==
    /\ pc = "formatted"
    /\ mode
    /\ DigitCount > MaxUnitDigits
    /\ UnitOf(shown) = metricUnits[7]
    /\ WeiToString(resWei, FALSE) = Overflow

\* 1 to 3 integer digits without a leading zero and, after a point, a
\* non-empty fraction without a trailing zero
NumShape(n) ==
    LET p == IF Contains(n, ".") THEN PointAt(n) ELSE Len(n) + 1
    IN  /\ p - 1 \in 1..3
        /\ \A k \in 1..(p - 1) : n[k] \in Digits
        /\ n[1] # "0"
        /\ p <= Len(n) =>
               /\ p < Len(n)
               /\ \A k \in (p + 1)..Len(n) : n[k] \in Digits
               /\ n[Len(n)] # "0"

\* C9: for every V with 0 < V < 10^33 and d digits, WeiToString(V, false) is
\* "<num> <unit>" with the unit at index floor((d-1)/3) of metricUnits and
\* num of the shape above; it is "overflow" if and only if V >= 10^33.
C9_UnitAndOverflow ==
    pc = "formatted" /\ ~mode /\ Sign(resWei) > 0 =>
        /\ shown = Overflow <=> DigitCount > MaxUnitDigits
        /\ DigitCount <= MaxUnitDigits =>
               /\ UnitOf(shown) = metricUnits[((DigitCount - 1) \div 3) + 1]
               /\ NumShape(NumOf(shown))

\* the largest amount with a unit, to the last Wei
C9_Witness ==
    /\ pc = "formatted"
    /\ ~mode
    /\ DigitCount = MaxUnitDigits
    /\ resWei.abs[DigitCount] # 0
    /\ UnitOf(shown) = metricUnits[Len(metricUnits)]
    /\ Len(NumOf(shown)) = MaxUnitDigits + 1

\* C10: UnitToMultiplier returns the listed power of 1000, which is > 0, for
\* every listed name in any mix of upper and lower case, and ErrUnknownUnit and
\* no multiplier for every other name.
C10_UnitTable ==
    pc = "looked" =>
        IF ToLower(uname) \in ListedNames
        THEN /\ uerr = Nil
             /\ umult = MkInt(FALSE, PowerOfTen(
                    (CHOOSE u \in ListedUnits : u.name = ToLower(uname)).exp))
             /\ Sign(umult) > 0
        ELSE uerr = ErrUnknownUnit /\ umult = NilInt

\* "TERAETHER"-like: a listed name not in lower case
C10_Witness ==
    /\ pc = "looked"
    /\ uname # ToLower(uname)
    /\ uerr = Nil
    /\ umult = MkInt(FALSE, PowerOfTen(30))

(***************************************************************************)
(* C11..C16                                                                *)
(***************************************************************************)
\* C11: whenever StringToWei returns, exactly one of the amount and the error
\* is present, and a returned amount is >= 0.
C11_OneOfAmountAndError ==
    pc = "parsed" /\ resErr # Panic =>
        /\ (resWei = NilInt) <=> (resErr # Nil)
        /\ resWei # NilInt => Sign(resWei) >= 0

\* "-2 wei"-like: a negative result is refused, not clamped
C11_Witness ==
    /\ pc = "parsed"
    /\ Shaped
    /\ HasSign
    /\ resErr = ErrNegative
    /\ resWei = NilInt

\* C12: a non-empty input and a non-empty string that differs from it only by
\* spaces and underscores put in or taken out get the same outcome from
\* StringToWei: the same amount or the same error.
C12_SeparatorInsensitive ==
    pc = "respaced" /\ text # <<>> => resWei2 = resWei /\ resErr2 = resErr

\* "1_000wei" against "1000wei"-like: an amount read through an underscore
\* between its digits
C12_Witness ==
    /\ pc = "respaced"
    /\ other # text
    /\ \E k \in 2..Len(other) :
           other[k] = "_" /\ other[k - 1] \in Digits /\ k < Len(other)
               /\ other[k + 1] \in Digits
    /\ resErr2 = Nil
    /\ Sign(resWei2) > 0
    /\ UnitToken # <<>>

\* the amount StringToWei gives for text is below 2^64 GWei
FitsUint64 ==
    natCmp(StringToWei(text).wei.abs, natMul(TwoTo64, billion.abs)) < 0

\* r is floor(A / 10^9): r * 10^9 <= A < (r + 1) * 10^9
GWeiFloor(r, A) ==
    /\ natCmp(natMul(r, billion.abs), A.abs) <= 0
    /\ natCmp(A.abs, natMul(natAdd(r, <<1>>), billion.abs)) < 0

\* C13: when StringToWei gives the amount A for an input, StringToGWei gives no
\* error and r with r * 10^9 <= A < (r + 1) * 10^9; when StringToWei gives an
\* error, StringToGWei gives that error and 0.
C13_GWeiFloor ==
    pc = "gwei" =>
        IF StringToWei(text).err = Nil
        THEN gerr = Nil /\ GWeiFloor(gwei, StringToWei(text).wei)
        ELSE gerr = StringToWei(text).err /\ gwei = <<>>

\* the same for the amounts below 2^64 GWei
C13_GWeiFloorBelow2to64 ==
    pc = "gwei" /\ StringToWei(text).err = Nil /\ FitsUint64 =>
        gerr = Nil /\ GWeiFloor(gwei, StringToWei(text).wei)

\* the digits of resWei that count GWei: all but the last nine
GWeiWhole ==
    IF Len(resWei.abs) <= 9 THEN <<"0">>
    ELSE [i \in 1..(Len(resWei.abs) - 9) |-> DigitRunes[resWei.abs[i] + 1]]

\* the last nine digits of resWei, with zeros in front when it has fewer
GWeiNine ==
    [i \in 1..9 |->
         IF i + Len(resWei.abs) - 9 >= 1
         THEN DigitRunes[resWei.abs[i + Len(resWei.abs) - 9] + 1] ELSE "0"]

\* C14: WeiToGWeiString(V) for V >= 0 is "<q> GWei" when r = 0 and otherwise
\* "<q>.<f> GWei", q = V div 10^9, r = V mod 10^9 and f the nine zero-padded
\* digits of r without trailing zeros; for a nil amount it is "0"; and
\* StringToWei gives V back for the string of an amount V >= 0.
C14_GWeiString ==
    /\ pc \in {"gformatted", "greparsed"} /\ resWei = NilInt => shown = <<"0">>
    /\ pc \in {"gformatted", "greparsed"} /\ resWei # NilInt =>
           shown = GWeiWhole
                       \o (IF TrimRight(GWeiNine, "0") = <<>> THEN <<>>
                           ELSE <<".">> \o TrimRight(GWeiNine, "0"))
                       \o <<" ", "G", "W", "e", "i">>
    /\ pc = "greparsed" /\ resWei # NilInt => resErr2 = Nil /\ resWei2 = resWei

\* an amount of a whole number of GWei and less than a tenth of a GWei more,
\* read back from its string
C14_Witness ==
    /\ pc = "greparsed"
    /\ resWei # NilInt
    /\ Len(resWei.abs) > 9
    /\ GWeiNine[1] = "0"
    /\ TrimRight(GWeiNine, "0") # <<>>
    /\ resWei2 = resWei

\* C15: after WeiToString(V, standard) or WeiToGWeiString(V) the caller's V is
\* what StringToWei returned, and formatting it again gives the same string.
C15_ArgumentUnchanged ==
    /\ pc \in {"formatted", "gformatted"} => resWei = StringToWei(text).wei
    /\ pc = "formatted" => WeiToString(resWei, mode) = shown
    /\ pc = "gformatted" => WeiToGWeiString(resWei) = shown

\* "5000 gwei"-like: an amount that weiToStringStep1 divides by 1000
C15_Witness ==
    /\ pc = "formatted"
    /\ Len(resWei.abs) > 3
    /\ resWei.abs[Len(resWei.abs)] = 0
    /\ resWei.abs[Len(resWei.abs) - 1] = 0
    /\ resWei.abs[Len(resWei.abs) - 2] = 0
    /\ shown # <<"o", "v", "e", "r", "f", "l", "o", "w">>

\* C16: StringToWei returns an error and no amount for every input that has
\* no decimal digit once its spaces and underscores are removed.
C16_NoDigitRejected ==
    pc = "parsed" /\ (\A i \in 1..Len(Stripped) : Stripped[i] \notin Digits) =>
        resErr # Nil /\ resWei = NilInt

====
